---- MODULE Spec2Model ----
(***************************************************************************)
(* Driver binding layer of rust/kernel: the I2C driver adapter             *)
(* (rust/kernel/i2c.rs) and the RTC registration (rust/kernel/rtc.rs).     *)
(*                                                                         *)
(* Pointers are small naturals, 0 is the null pointer.  A Result is a      *)
(* record [ok, val]: Ok(v) carries v, Err(e) carries the negative errno e. *)
(* An optional return value is a sequence: <<>> "nothing returned yet",    *)
(* <<v>> "v was returned".                                                 *)
(***************************************************************************)
EXTENDS Integers, Sequences, FiniteSets, TLC

\* ------------------------------------------------------------------ bounds
NumDevices == 2      \* I2C client devices the host knows
MaxData == 3         \* owned-data values (Box allocations) ever created
MaxRtc == 3          \* host RTC devices ever allocated
NumParents == 2      \* parent devices a Registration may be registered under
MaxEntries == 3      \* entries of an Id Table
MaxNameLen == 3      \* length of the device names built from every byte of Bytes
MaxOffset == 2       \* offsets handed to to_rawid
MaxFw == 3          \* firmware objects the host hands out

Devices == 1..NumDevices
DataIds == 1..MaxData
RtcIds == 1..MaxRtc
Parents == 1..NumParents

\* ------------------------------------------------------- error convention
EINVAL == -22

\* Error codes a driver's probe/remove/read_time/set_time may fail with.
DriverErrs == {-5, -22}
\* Error codes the host's entry points may fail with.
HostErrs == {-12, -22}

Ok(v) == [ok |-> TRUE, val |-> v]
Err(e) == [ok |-> FALSE, val |-> e]

\* Error::from_kernel_errno: an errno outside [-MAX_ERRNO, -1], MAX_ERRNO
\* being 4095, becomes EINVAL.
from_kernel_errno(errno) ==
    IF errno < -4095 \/ errno >= 0 THEN EINVAL ELSE errno

\* Error::to_kernel_errno: the errno the error wraps.
to_kernel_errno(e) == e

\* to_result: a negative code is an error, anything else is Ok(()).
to_result(err) == IF err < 0 THEN Err(from_kernel_errno(err)) ELSE Ok(0)

\* from_kernel_err_ptr: an ERR_PTR (modelled as a negative number) is an
\* error, anything else is the pointer.
from_kernel_err_ptr(ptr) == IF ptr < 0 THEN Err(from_kernel_errno(ptr)) ELSE Ok(ptr)

\* from_kernel_result!: Ok(v) is returned as v, Err(e) as e's errno.
from_kernel_result(r) == IF r.ok THEN r.val ELSE to_kernel_errno(r.val)

VARIABLES
    \* ---- shared heap of owned data (T::Data, a Box) ----
    nextData,    \* next fresh allocation
    drops,       \* [DataIds -> Nat]: times the value was finalized (dropped)
    reclaims,    \* [DataIds -> Nat]: times from_pointer rebuilt the value
    \* ---- I2C: host side ----
    clientdata,  \* [Devices -> 0..MaxData]: i2c_client private-data slot
    bound,       \* [Devices -> BOOLEAN]: host has the driver bound to the device
    \* ---- I2C: trampolines in flight, one per device ----
    pc,          \* [Devices -> position of the trampoline running on the device]
    held,        \* [Devices -> 0..MaxData]: owned data the trampoline holds
    res,         \* [Devices -> Result]: what T::probe / T::remove returned
    ret,         \* [Devices -> <<>> or <<c_int>>]: last value returned to the host
    probeCalls,  \* [Devices -> Nat]: T::probe invocations of the current/last probe
    origin,      \* [DataIds -> 0..NumDevices]: device whose T::probe returned it
    reclaimedBy, \* [DataIds -> 0..NumDevices]: device whose remove reclaimed it
    info,        \* [Devices -> context or 0]: local `info` of probe_new_callback
    device_info, \* [Devices -> context or 0]: local `device_info`
    probeArgs,   \* [Devices -> <<>> or <<info, device_info>>]: what T::probe received
    trace,       \* [Devices -> Seq]: calls the current/last trampoline made, in order
    \* ---- RTC: the driver's vtable (#[vtable] trait Rtc) ----
    HAS_READ_TIME,  \* the driver provides read_time
    HAS_SET_TIME,   \* the driver provides set_time
    \* ---- RTC: the Registration<T> ----
    regAlive,    \* the Registration exists (created by new, not yet dropped)
    rtc,         \* field rtc: 0 is None, else the host RTC device
    ops,         \* field ops: which rtc_class_ops entries are set (non-null)
    parent,      \* field parent: 0 is None, else the parent device
    \* ---- RTC: the register call in flight ----
    rpc,         \* position of the register call
    argParent,   \* its `parent` argument
    argData,     \* its `data` argument, then `data_pointer`
    regRet,      \* <<>> or <<c_int>>: what the last register call returned
    atEntry,     \* the fields <<rtc, ops, parent>> when the last call was entered
    everOk,      \* some register call has returned Ok
    \* ---- RTC: host side ----
    nextRtc,     \* next host RTC device devm_rtc_allocate_device hands out
    devOps,      \* [RtcIds -> BOOLEAN]: (*rtc).ops points at the Registration's ops
    drvdata,     \* [RtcIds -> 0..MaxData]: private-data slot of the RTC device
    registered,  \* [RtcIds -> BOOLEAN]: devm_rtc_register_device accepted it
    devParent,   \* [RtcIds -> 0..NumParents]: device that owns the devm allocation
    hostCode,    \* what the host's last entry point returned to register
    \* ---- RTC: the last callback the host issued ----
    cbKind,      \* "none", "read_time", "set_time" or "dangling"
    cbDev,       \* the RTC device it was issued on
    cbData,      \* the pointer it borrowed from the slot
    cbRes,       \* what the driver's read_time / set_time returned
    cbRet,       \* <<>> or <<c_int>>: what the callback returned to the host
    \* ---- I2C: the driver's Id Tables (consts of trait Driver) ----
    OF_DEVICE_ID_TABLE,  \* <<>> is None, <<t>> is Some(t)
    ID_TABLE,            \* <<>> is None, <<t>> is Some(t)
    \* ---- Id Table matching on its own ----
    mEntries,    \* the (identity, optional context) entries a table is built from
    mTable,      \* the table built from them
    mIdx,        \* index of the record the host's lookup returned, 0 for null
    mRes,        \* <<>> or <<context>>: what matching returned (0 is None)
    mPtr,        \* the address matching read the context from, 0 when it read none
    mMem,        \* what the memory around the table holds, read as an Option<context>
    mZero,       \* what zero bytes mean, read as an Option of the driver's context type
    \* ---- DeviceId::to_rawid on its own ----
    rName,       \* the name of DeviceId::Name(name), a sequence of bytes
    rOffset,     \* the offset argument
    rOut,        \* <<>> or <<outcome>>: what to_rawid produced
    \* ---- I2C: DriverAdapter::register / unregister ----
    pdrv,        \* the i2c_driver record `reg` points at
    pdrv0,       \* the record as it was when register was entered
    drvPc,       \* position of the register call
    drvName,     \* its `name` argument
    drvCode,     \* what i2c_register_driver returned
    drvRet,      \* <<>> or <<Result>>: what register returned
    hostSaw,     \* <<>> or <<record>>: the record as i2c_register_driver saw it
    hostHas,     \* the host holds the driver record (registered, not deleted)
    \* ---- Firmware ----
    fwNext,      \* the next firmware object the host hands out
    fwHandles,   \* pointers of the Firmware handles alive
    fwEnded,     \* pointers of the handles whose lifetime has ended
    fwReleased,  \* per pointer, how often release_firmware was called on it
    fwLast       \* <<>> or <<[entry, code, ret]>>: the last request

heapVars == <<nextData, drops, reclaims>>
i2cVars == <<clientdata, bound, pc, held, res, ret, probeCalls, origin, reclaimedBy,
             info, device_info, probeArgs, trace>>
vtableVars == <<HAS_READ_TIME, HAS_SET_TIME>>
regVars == <<regAlive, rtc, ops, parent>>
callVars == <<rpc, argParent, argData, regRet, atEntry, everOk>>
rtcHostVars == <<nextRtc, devOps, drvdata, registered, devParent, hostCode>>
cbVars == <<cbKind, cbDev, cbData, cbRes, cbRet>>
rtcVars == <<vtableVars, regVars, callVars, rtcHostVars, cbVars>>
tableVars == <<OF_DEVICE_ID_TABLE, ID_TABLE>>
matchVars == <<mEntries, mTable, mIdx, mRes, mPtr, mMem, mZero>>
rawVars == <<rName, rOffset, rOut>>
drvVars == <<pdrv, pdrv0, drvPc, drvName, drvCode, drvRet, hostSaw, hostHas>>
fwVars == <<fwNext, fwHandles, fwEnded, fwReleased, fwLast>>
vars == <<heapVars, i2cVars, rtcVars, tableVars, matchVars, rawVars, drvVars, fwVars>>

\* What each part of the model leaves alone.
notI2c == <<rtcVars, tableVars, matchVars, rawVars, drvVars, fwVars>>
notRtc == <<i2cVars, tableVars, matchVars, rawVars, drvVars, fwVars>>
notMatch == <<heapVars, i2cVars, rtcVars, tableVars, rawVars, drvVars, fwVars>>
notRaw == <<heapVars, i2cVars, rtcVars, tableVars, matchVars, drvVars, fwVars>>
notDrv == <<heapVars, i2cVars, rtcVars, tableVars, matchVars, rawVars, fwVars>>
notFw == <<heapVars, i2cVars, rtcVars, tableVars, matchVars, rawVars, drvVars>>

\* PointerWrapper for a Box: into_pointer leaks the box as its address,
\* from_pointer rebuilds the box from the address.
into_pointer(data) == data
from_pointer(ptr) == ptr

InitHeap ==
    /\ nextData = 1
    /\ drops = [p \in DataIds |-> 0]
    /\ reclaims = [p \in DataIds |-> 0]

InitI2c ==
    /\ clientdata = [d \in Devices |-> 0]
    /\ bound = [d \in Devices |-> FALSE]
    /\ pc = [d \in Devices |-> "idle"]
    /\ held = [d \in Devices |-> 0]
    /\ res = [d \in Devices |-> Ok(0)]
    /\ ret = [d \in Devices |-> <<>>]
    /\ probeCalls = [d \in Devices |-> 0]
    /\ origin = [p \in DataIds |-> 0]
    /\ reclaimedBy = [p \in DataIds |-> 0]
    /\ info = [d \in Devices |-> 0]
    /\ device_info = [d \in Devices |-> 0]
    /\ probeArgs = [d \in Devices |-> <<>>]
    /\ trace = [d \in Devices |-> <<>>]

\* ------------------------------------------------------------- Id Tables
\* Sizes in bytes of the host's records and of one Option<context>.
I2cRecSize == 32
OfRecSize == 200
InfoSize == 8

\* Contexts a table entry may carry; 0 stands for None.
Contexts == {10, 20}
\* What bytes that are not a context cell's may mean when read as an
\* Option<context>: None, a context some entry carries, or one none carries.
StrayValues == {0, 77} \cup Contexts

\* An IdArray laid out at `base`: n records, the zero terminator record, then
\* n Option<context> cells.
RecAddr(t, i) == t.base + (i - 1) * t.recSize
InfoAddr(t, i) == t.base + (t.n + 1) * t.recSize + (i - 1) * InfoSize

\* IdArray::new: records in input order; the reserved field of record i is the
\* byte offset from the record to its context cell, or zero without context.
IdArrayNew(base, recSize, entries) ==
    LET shape == [base |-> base, recSize |-> recSize, n |-> Len(entries)] IN
    [base |-> base, recSize |-> recSize, n |-> Len(entries),
     ids |-> [i \in 1..Len(entries) |->
                [id |-> entries[i].id,
                 data |-> IF entries[i].info = 0 THEN 0
                          ELSE InfoAddr(shape, i) - RecAddr(shape, i)]],
     infos |-> [i \in 1..Len(entries) |-> entries[i].info]]

\* (*id).data / (*id).driver_data: the reserved field of the record at `id`.
LoadRecord(t, id) == t.ids[CHOOSE i \in 1..t.n : RecAddr(t, i) = id]

\* ptr lies in the terminator record with room for an Option<context>.
InTerminator(t, ptr) ==
    /\ RecAddr(t, t.n + 1) <= ptr
    /\ ptr + InfoSize <= RecAddr(t, t.n + 2)

\* &*ptr: the Option<context> the memory at `ptr` holds.  A context cell
\* holds its entry's context; the terminator record holds zero bytes, which
\* read as what zero bytes mean for the driver's context type (None for a
\* type whose None is all zero, a Some for a type whose None is a niche
\* value); anywhere else the read yields whatever lies there.
LoadInfo(t, ptr) ==
    IF \E j \in 1..t.n : InfoAddr(t, j) = ptr
    THEN t.infos[CHOOSE j \in 1..t.n : InfoAddr(t, j) = ptr]
    ELSE IF InTerminator(t, ptr) THEN mZero
    ELSE mMem

\* A decoding that adds the offset to the start of the table, not to the record.
info_ptr_from_base(table, id) ==
    IF id = 0 THEN 0
    ELSE LET offset == LoadRecord(table, id).data IN
         IF offset = 0 THEN 0
         ELSE table.base + offset

\* The pointer get_id_info / get_device_id_info dereference after the host's
\* lookup returned `id`: none (0) for a null id or a null offset, otherwise
\* id.cast::<u8>().offset(offset).
info_ptr(table, id) ==
    IF id = 0 THEN 0
    ELSE LET offset == LoadRecord(table, id).data IN
         IF offset = 0 THEN 0
         ELSE id + offset

\* get_id_info / get_device_id_info after the host's lookup returned `id`: a
\* null id is None; a null offset is None; otherwise the Option<context> at
\* id + offset, as a reference to its content.
info_at(table, id) ==
    LET ptr == info_ptr(table, id) IN
    IF ptr = 0 THEN 0 ELSE LoadInfo(table, ptr)

\* Entries a table may be built from: entry i has identity i.
EntrySeqs ==
    UNION {[1..n -> {0} \cup Contexts] : n \in 1..MaxEntries}

InitMatchIdle ==
    /\ mEntries = <<>>
    /\ mTable = IdArrayNew(64, I2cRecSize, <<>>)
    /\ mIdx = 0
    /\ mRes = <<>>
    /\ mPtr = 0
    /\ mMem = 0
    /\ mZero = 0

InitMatch ==
    /\ mEntries \in {[i \in DOMAIN f |-> [id |-> i, info |-> f[i]]] : f \in EntrySeqs}
    /\ mTable \in {IdArrayNew(64, sz, mEntries) : sz \in {I2cRecSize, OfRecSize}}
    /\ mIdx = 0
    /\ mRes = <<>>
    /\ mPtr = 0
    /\ mMem \in StrayValues
    /\ mZero \in StrayValues

\* The host's lookup returns the record at index i (i = 0: null) and the
\* adapter decodes its context.
match_record(i) ==
    /\ mIdx' = i
    /\ LET id == IF i = 0 THEN 0 ELSE RecAddr(mTable, i) IN
        /\ mPtr' = info_ptr(mTable, id)
        /\ mRes' = <<info_at(mTable, id)>>
    /\ UNCHANGED <<mEntries, mTable, mMem, mZero>>

MatchRecord == \E i \in 0..Len(mEntries) : match_record(i) /\ UNCHANGED notMatch

NextMatch == MatchRecord

\* --------------------------------------------------- DeviceId::to_rawid
\* Length of i2c_device_id::name.
NameCap == 20

\* const ZERO: name all zero, driver_data zero.  Index i of the source is
\* position i + 1 here.
ZERO == [name |-> [i \in 1..NameCap |-> 0], driver_data |-> 0]

\* An "index out of bounds" stop: no record is produced.
OutOfBounds == [ok |-> FALSE, id |-> ZERO]

\* A cast that keeps seven bits only.
as_c_char_7bit(b) == b % 128

\* `name[i] as _`: u8 to c_char (signed, 8 bits): the bit pattern is kept.
as_c_char(b) == IF b >= 128 THEN b - 256 ELSE b

\* The while loop from index i on: stops out of bounds at the first index
\* outside id.name, otherwise yields the filled buffer.
RECURSIVE copy_name(_, _, _)
copy_name(buf, name, i) ==
    IF i < Len(name)
    THEN IF i >= NameCap THEN <<>>
         ELSE copy_name([buf EXCEPT ![i + 1] = as_c_char(name[i + 1])], name, i + 1)
    ELSE <<buf>>

\* A to_rawid that cuts the name to what fits before the terminator.
to_rawid_truncating(name, offset) ==
    LET cut == IF Len(name) >= NameCap THEN SubSeq(name, 1, NameCap - 1) ELSE name
        copied == copy_name(ZERO.name, cut, 0) IN
    [ok |-> TRUE,
     id |-> [name |-> [copied[1] EXCEPT ![Len(cut) + 1] = 0], driver_data |-> offset]]

\* A to_rawid that leaves driver_data as ZERO has it.
to_rawid_dropping_offset(name, offset) ==
    LET copied == copy_name(ZERO.name, name, 0) IN
    IF copied = <<>> THEN OutOfBounds
    ELSE IF Len(name) >= NameCap THEN OutOfBounds
    ELSE [ok |-> TRUE,
          id |-> [name |-> [copied[1] EXCEPT ![Len(name) + 1] = 0],
                  driver_data |-> ZERO.driver_data]]

\* to_rawid: id = ZERO; copy the name; id.name[i] = 0 at i = name.len();
\* id.driver_data = offset.
to_rawid(name, offset) ==
    LET copied == copy_name(ZERO.name, name, 0) IN
    IF copied = <<>> THEN OutOfBounds
    ELSE IF Len(name) >= NameCap THEN OutOfBounds  \* id.name[i] = 0 with i = 20
    ELSE [ok |-> TRUE,
          id |-> [name |-> [copied[1] EXCEPT ![Len(name) + 1] = 0],
                  driver_data |-> offset]]

\* Bytes names are made of: zero, an ASCII letter, a byte above 127.
Bytes == {0, 97, 200}
\* Every short name, and names of one letter around the capacity.
Names ==
    UNION {[1..n -> Bytes] : n \in 0..MaxNameLen}
    \cup {[i \in 1..n |-> 97] : n \in (NameCap - 2)..(NameCap + 1)}
Offsets == 0..MaxOffset

InitRawIdle ==
    /\ rName = <<>>
    /\ rOffset = 0
    /\ rOut = <<>>

InitRaw ==
    /\ rName \in Names
    /\ rOffset \in Offsets
    /\ rOut = <<>>

to_rawid_call ==
    /\ rOut' = <<to_rawid(rName, rOffset)>>
    /\ UNCHANGED <<rName, rOffset>>

ToRawid == to_rawid_call /\ UNCHANGED notRaw

NextRaw == ToRawid

\* ------------------------------------- I2C DriverAdapter::register
\* The tables of a driver that defines them: an Open Firmware table whose one
\* entry matches device 2, and an I2C table whose entries match devices 1
\* (with context) and 2 (without).
OfTable == IdArrayNew(4096, OfRecSize, <<[id |-> 2, info |-> 20]>>)
I2cTable == IdArrayNew(8192, I2cRecSize, <<[id |-> 1, info |-> 10], [id |-> 2, info |-> 0]>>)

\* A driver defines each table or leaves it None.
InitDriverTables ==
    /\ OF_DEVICE_ID_TABLE \in {<<>>, <<OfTable>>}
    /\ ID_TABLE \in {<<>>, <<I2cTable>>}

\* t.as_ref(): the address of the table's first raw record.
as_ref(t) == t.base

\* ------------------------------------------------ I2C probe matching
\* The host's lookups of_match_device / i2c_match_id: the address of the
\* first record of the table whose identity is the device's, or null.
\* Device d has identity d.
host_match(t, d) ==
    IF \E i \in 1..t.n : t.ids[i].id = d
    THEN RecAddr(t, CHOOSE i \in 1..t.n :
                      /\ t.ids[i].id = d
                      /\ \A j \in 1..(i - 1) : t.ids[j].id # d)
    ELSE 0
of_match_device(t, d) == host_match(t, d)
i2c_match_id(t, d) == host_match(t, d)

\* let table = T::OF_DEVICE_ID_TABLE?; then the lookup and the decoding.
get_id_info(d) ==
    IF OF_DEVICE_ID_TABLE = <<>> THEN 0
    ELSE LET table == OF_DEVICE_ID_TABLE[1] IN
         info_at(table, of_match_device(table, d))

\* A get_device_id_info that decodes the first record of the table whatever
\* the device is.
get_device_id_info_first_record(d) ==
    IF ID_TABLE = <<>> THEN 0
    ELSE LET table == ID_TABLE[1] IN
         info_at(table, RecAddr(table, 1))

\* let table = T::ID_TABLE?; then the lookup and the decoding.
get_device_id_info(d) ==
    IF ID_TABLE = <<>> THEN 0
    ELSE LET table == ID_TABLE[1] IN
         info_at(table, i2c_match_id(table, d))

\* ------------------------------------------ I2C probe_new_callback, by step
\* The host calls probe_new_callback on a device it has no driver bound to.
probe_enter(d) ==
    /\ pc[d] = "idle"
    /\ ~bound[d]
    /\ pc' = [pc EXCEPT ![d] = "probe_entered"]
    /\ probeCalls' = [probeCalls EXCEPT ![d] = 0]
    /\ ret' = [ret EXCEPT ![d] = <<>>]
    /\ info' = [info EXCEPT ![d] = get_id_info(d)]
    /\ device_info' = [device_info EXCEPT ![d] = get_device_id_info(d)]
    /\ probeArgs' = [probeArgs EXCEPT ![d] = <<>>]
    /\ trace' = [trace EXCEPT ![d] = <<"get_id_info", "get_device_id_info">>]
    /\ UNCHANGED <<heapVars, clientdata, bound, held, res, origin, reclaimedBy>>

\* let data = T::probe(&mut client, info, device_info): the driver fails with
\* an error or returns freshly allocated owned data.
probe_call(d, ok, e) ==
    /\ pc[d] = "probe_entered"
    /\ probeCalls' = [probeCalls EXCEPT ![d] = @ + 1]
    /\ pc' = [pc EXCEPT ![d] = "probe_called"]
    /\ IF ok
       THEN /\ nextData <= MaxData
            /\ res' = [res EXCEPT ![d] = Ok(nextData)]
            /\ held' = [held EXCEPT ![d] = nextData]
            /\ origin' = [origin EXCEPT ![nextData] = d]
            /\ nextData' = nextData + 1
       ELSE /\ res' = [res EXCEPT ![d] = Err(e)]
            /\ UNCHANGED <<held, origin, nextData>>
    /\ probeArgs' = [probeArgs EXCEPT ![d] = <<info[d], device_info[d]>>]
    /\ trace' = [trace EXCEPT ![d] = Append(@, "T::probe")]
    /\ UNCHANGED <<drops, reclaims, clientdata, bound, ret, reclaimedBy, info, device_info>>

\* A probe_new_callback that keeps its data in one slot shared by all devices.
probe_return_shared_slot(d) ==
    /\ pc[d] = "probe_called"
    /\ pc' = [pc EXCEPT ![d] = "idle"]
    /\ IF res[d].ok
       THEN /\ clientdata' = [clientdata EXCEPT ![1] = into_pointer(held[d])]
            /\ held' = [held EXCEPT ![d] = 0]
            /\ ret' = [ret EXCEPT ![d] = <<from_kernel_result(Ok(0))>>]
            /\ bound' = [bound EXCEPT ![d] = TRUE]
            /\ trace' = [trace EXCEPT ![d] = @ \o <<"i2c_set_clientdata", "return">>]
       ELSE /\ ret' = [ret EXCEPT ![d] = <<from_kernel_result(res[d])>>]
            /\ trace' = [trace EXCEPT ![d] = Append(@, "return")]
            /\ UNCHANGED <<clientdata, held, bound>>
    /\ UNCHANGED <<heapVars, res, probeCalls, origin, reclaimedBy, info, device_info, probeArgs>>

\* A probe_new_callback that stores its data only into an empty slot.
probe_return_keep_stale(d) ==
    /\ pc[d] = "probe_called"
    /\ pc' = [pc EXCEPT ![d] = "idle"]
    /\ IF res[d].ok
       THEN /\ clientdata' = [clientdata EXCEPT ![d] =
                                 IF @ = 0 THEN into_pointer(held[d]) ELSE @]
            /\ held' = [held EXCEPT ![d] = 0]
            /\ ret' = [ret EXCEPT ![d] = <<from_kernel_result(Ok(0))>>]
            /\ bound' = [bound EXCEPT ![d] = TRUE]
            /\ trace' = [trace EXCEPT ![d] = @ \o <<"i2c_set_clientdata", "return">>]
       ELSE /\ ret' = [ret EXCEPT ![d] = <<from_kernel_result(res[d])>>]
            /\ trace' = [trace EXCEPT ![d] = Append(@, "return")]
            /\ UNCHANGED <<clientdata, held, bound>>
    /\ UNCHANGED <<heapVars, res, probeCalls, origin, reclaimedBy, info, device_info, probeArgs>>

\* A probe_new_callback that writes the slot before looking at the result.
probe_return_store_first(d) ==
    /\ pc[d] = "probe_called"
    /\ pc' = [pc EXCEPT ![d] = "idle"]
    /\ clientdata' = [clientdata EXCEPT ![d] = into_pointer(held[d])]
    /\ held' = [held EXCEPT ![d] = 0]
    /\ ret' = [ret EXCEPT ![d] = <<from_kernel_result(IF res[d].ok THEN Ok(0) ELSE res[d])>>]
    /\ bound' = [bound EXCEPT ![d] = res[d].ok]
    /\ trace' = [trace EXCEPT ![d] = @ \o <<"i2c_set_clientdata", "return">>]
    /\ UNCHANGED <<heapVars, res, probeCalls, origin, reclaimedBy, info, device_info, probeArgs>>

\* `?` on the result, then i2c_set_clientdata(pclient, data.into_pointer()) and
\* Ok(0); from_kernel_result! turns the outcome into the c_int for the host,
\* which binds the driver when it is 0.
probe_return(d) ==
    /\ pc[d] = "probe_called"
    /\ pc' = [pc EXCEPT ![d] = "idle"]
    /\ IF res[d].ok
       THEN /\ clientdata' = [clientdata EXCEPT ![d] = into_pointer(held[d])]
            /\ held' = [held EXCEPT ![d] = 0]
            /\ ret' = [ret EXCEPT ![d] = <<from_kernel_result(Ok(0))>>]
            /\ bound' = [bound EXCEPT ![d] = TRUE]
            /\ trace' = [trace EXCEPT ![d] = @ \o <<"i2c_set_clientdata", "return">>]
       ELSE /\ ret' = [ret EXCEPT ![d] = <<from_kernel_result(res[d])>>]
            /\ trace' = [trace EXCEPT ![d] = Append(@, "return")]
            /\ UNCHANGED <<clientdata, held, bound>>
    /\ UNCHANGED <<heapVars, res, probeCalls, origin, reclaimedBy, info, device_info, probeArgs>>

\* --------------------------------------------- I2C remove_callback, by step
\* The host calls remove_callback on a device the driver is bound to:
\* ptr = i2c_get_clientdata(pclient); data = T::Data::from_pointer(ptr).
remove_reclaim(d) ==
    /\ pc[d] = "idle"
    /\ bound[d]
    /\ LET ptr == clientdata[d] IN
        /\ held' = [held EXCEPT ![d] = from_pointer(ptr)]
        /\ reclaims' = [reclaims EXCEPT ![ptr] = @ + 1]
        /\ reclaimedBy' = [reclaimedBy EXCEPT ![ptr] = d]
    /\ pc' = [pc EXCEPT ![d] = "remove_reclaimed"]
    /\ ret' = [ret EXCEPT ![d] = <<>>]
    /\ trace' = [trace EXCEPT ![d] = <<"from_pointer">>]
    /\ UNCHANGED <<nextData, drops, clientdata, bound, res, probeCalls, origin,
                   info, device_info, probeArgs>>

\* let ret = T::remove(&data)
remove_call(d, r) ==
    /\ pc[d] = "remove_reclaimed"
    /\ res' = [res EXCEPT ![d] = r]
    /\ pc' = [pc EXCEPT ![d] = "remove_called"]
    /\ trace' = [trace EXCEPT ![d] = Append(@, "T::remove")]
    /\ UNCHANGED <<heapVars, clientdata, bound, held, ret, probeCalls, origin, reclaimedBy,
                   info, device_info, probeArgs>>

\* A remove_callback that drops the data before it runs the hook on it.
remove_hook_on_dropped(d) ==
    /\ pc[d] = "remove_called"
    /\ pc' = [pc EXCEPT ![d] = "remove_hooked"]
    /\ drops' = [drops EXCEPT ![held[d]] = @ + 1]
    /\ trace' = [trace EXCEPT ![d] = @ \o <<"drop", "device_remove">>]
    /\ UNCHANGED <<nextData, reclaims, clientdata, bound, held, res, ret, probeCalls,
                   origin, reclaimedBy, info, device_info, probeArgs>>

\* <T::Data as driver::DeviceRemoval>::device_remove(&data)
remove_hook(d) ==
    /\ pc[d] = "remove_called"
    /\ pc' = [pc EXCEPT ![d] = "remove_hooked"]
    /\ trace' = [trace EXCEPT ![d] = Append(@, "device_remove")]
    /\ UNCHANGED <<heapVars, clientdata, bound, held, res, ret, probeCalls, origin, reclaimedBy,
                   info, device_info, probeArgs>>

\* A remove_callback that forgets the data when T::remove failed.
remove_return_leak_on_err(d) ==
    /\ pc[d] = "remove_hooked"
    /\ drops' = [drops EXCEPT ![held[d]] = IF res[d].ok THEN @ + 1 ELSE @]
    /\ held' = [held EXCEPT ![d] = 0]
    /\ ret' = [ret EXCEPT ![d] = <<from_kernel_result(IF res[d].ok THEN Ok(0) ELSE res[d])>>]
    /\ bound' = [bound EXCEPT ![d] = FALSE]
    /\ pc' = [pc EXCEPT ![d] = "idle"]
    /\ trace' = [trace EXCEPT ![d] = @ \o <<"drop", "return">>]
    /\ UNCHANGED <<nextData, reclaims, clientdata, res, probeCalls, origin, reclaimedBy,
                   info, device_info, probeArgs>>

\* ret?; Ok(0): the block ends, `data` goes out of scope and is dropped, and
\* from_kernel_result! returns the c_int.  The slot is not written.  The host
\* unbinds the driver whatever remove returned.
remove_return(d) ==
    /\ pc[d] = "remove_hooked"
    /\ drops' = [drops EXCEPT ![held[d]] = @ + 1]
    /\ held' = [held EXCEPT ![d] = 0]
    /\ ret' = [ret EXCEPT ![d] = <<from_kernel_result(IF res[d].ok THEN Ok(0) ELSE res[d])>>]
    /\ bound' = [bound EXCEPT ![d] = FALSE]
    /\ pc' = [pc EXCEPT ![d] = "idle"]
    /\ trace' = [trace EXCEPT ![d] = @ \o <<"drop", "return">>]
    /\ UNCHANGED <<nextData, reclaims, clientdata, res, probeCalls, origin, reclaimedBy,
                   info, device_info, probeArgs>>

ProbeEnter == \E d \in Devices : probe_enter(d) /\ UNCHANGED notI2c
ProbeCall ==
    \E d \in Devices, ok \in BOOLEAN, e \in DriverErrs :
        probe_call(d, ok, e) /\ UNCHANGED notI2c
ProbeReturn == \E d \in Devices : probe_return(d) /\ UNCHANGED notI2c
RemoveReclaim == \E d \in Devices : remove_reclaim(d) /\ UNCHANGED notI2c
DriverResults == {Ok(0)} \cup {Err(e) : e \in DriverErrs}

RemoveCall == \E d \in Devices, r \in DriverResults : remove_call(d, r) /\ UNCHANGED notI2c
RemoveHook == \E d \in Devices : remove_hook(d) /\ UNCHANGED notI2c
RemoveReturn == \E d \in Devices : remove_return(d) /\ UNCHANGED notI2c

NextI2c ==
    \/ ProbeEnter
    \/ ProbeCall
    \/ ProbeReturn
    \/ RemoveReclaim
    \/ RemoveCall
    \/ RemoveHook
    \/ RemoveReturn

DriverNames == {"mlilabs_emc", "my_i2cdev"}
\* What i2c_register_driver may return.
HostCodes == HostErrs \cup {0, 1}
\* What a table pointer of the caller's record may hold: null or an address
\* an earlier use left there.
PriorPointers == {0, 7}

InitDrvIdle ==
    /\ pdrv = [name |-> "", probe_new |-> "", remove |-> "",
               of_match_table |-> 0, id_table |-> 0]
    /\ pdrv0 = pdrv
    /\ drvPc = "idle"
    /\ drvName = ""
    /\ drvCode = 0
    /\ drvRet = <<>>
    /\ hostSaw = <<>>
    /\ hostHas = FALSE

InitDrv ==
    /\ InitDriverTables
    /\ pdrv \in [name : {""}, probe_new : {""}, remove : {""},
                 of_match_table : PriorPointers, id_table : PriorPointers]
    /\ pdrv0 = pdrv
    /\ drvPc = "idle"
    /\ drvName = ""
    /\ drvCode = 0
    /\ drvRet = <<>>
    /\ hostSaw = <<>>
    /\ hostHas = FALSE

\* A register that leaves the remove trampoline unset.
populated_without_remove(r, name) ==
    [name |-> name,
     probe_new |-> "probe_new_callback",
     remove |-> r.remove,
     of_match_table |-> IF OF_DEVICE_ID_TABLE # <<>> THEN as_ref(OF_DEVICE_ID_TABLE[1])
                        ELSE r.of_match_table,
     id_table |-> IF ID_TABLE # <<>> THEN as_ref(ID_TABLE[1]) ELSE r.id_table]

\* The record after the assignments of register (i2c.rs:44-52).
populated(r, name) ==
    [name |-> name,
     probe_new |-> "probe_new_callback",
     remove |-> "remove_callback",
     of_match_table |-> IF OF_DEVICE_ID_TABLE # <<>> THEN as_ref(OF_DEVICE_ID_TABLE[1])
                        ELSE r.of_match_table,
     id_table |-> IF ID_TABLE # <<>> THEN as_ref(ID_TABLE[1]) ELSE r.id_table]

\* register, first step: fill the record.  The caller registers a record the
\* host does not hold.
driver_populate(name) ==
    /\ drvPc = "idle"
    /\ ~hostHas
    /\ pdrv' = populated(pdrv, name)
    /\ pdrv0' = pdrv
    /\ drvName' = name
    /\ drvRet' = <<>>
    /\ drvPc' = "populated"
    /\ UNCHANGED <<drvCode, hostSaw, hostHas>>

\* register, second step: to_result(i2c_register_driver(module.0, reg)).
driver_call_host(code) ==
    /\ drvPc = "populated"
    /\ hostSaw' = <<pdrv>>
    /\ drvCode' = code
    /\ hostHas' = (code >= 0)
    /\ drvRet' = <<to_result(code)>>
    /\ drvPc' = "idle"
    /\ UNCHANGED <<pdrv, pdrv0, drvName>>

\* unregister: i2c_del_driver(reg) on a record a register call handed over.
driver_unregister ==
    /\ drvPc = "idle"
    /\ hostHas
    /\ hostHas' = FALSE
    /\ UNCHANGED <<pdrv, pdrv0, drvPc, drvName, drvCode, drvRet, hostSaw>>

DriverPopulate == \E name \in DriverNames : driver_populate(name) /\ UNCHANGED notDrv
DriverCallHost == \E code \in HostCodes : driver_call_host(code) /\ UNCHANGED notDrv
DriverUnregister == driver_unregister /\ UNCHANGED notDrv

NextDrv ==
    \/ DriverPopulate
    \/ DriverCallHost
    \/ DriverUnregister

\* ------------------------------------------------------------- Firmware
FwPtrs == 0..MaxFw

InitFw ==
    /\ fwNext = 1
    /\ fwHandles = {}
    /\ fwEnded = {}
    /\ fwReleased = [p \in FwPtrs |-> 0]
    /\ fwLast = <<>>

\* The host's request entry points: on success they store a fresh firmware
\* object through the out-pointer, on failure they leave it null.
host_request(code) == IF code = 0 THEN fwNext ELSE 0

\* Firmware::new(ptr): a handle that owns ptr.
firmware_new(ptr) == fwHandles \cup {ptr}

\* A request that wraps the out-pointer whatever the host returned.
request_via_unchecked(entry, code) ==
    LET ptr == host_request(code)
        r == to_result(code)
    IN  /\ code = 0 => fwNext <= MaxFw
        /\ fwNext' = IF code = 0 THEN fwNext + 1 ELSE fwNext
        /\ fwHandles' = firmware_new(ptr)
        /\ fwLast' = <<[entry |-> entry, code |-> code,
                        ret |-> IF r.ok THEN Ok(ptr) ELSE r]>>
        /\ UNCHANGED <<fwEnded, fwReleased>>

\* The body the three request functions share:
\*   let mut ptr = null; to_result(entry(&mut ptr, name, device.ptr))?;
\*   Ok(Self::new(ptr))
request_via(entry, code) ==
    LET ptr == host_request(code)
        r == to_result(code)
    IN  /\ code = 0 => fwNext <= MaxFw
        /\ fwNext' = IF code = 0 THEN fwNext + 1 ELSE fwNext
        /\ fwHandles' = IF r.ok THEN firmware_new(ptr) ELSE fwHandles
        /\ fwLast' = <<[entry |-> entry, code |-> code,
                        ret |-> IF r.ok THEN Ok(ptr) ELSE r]>>
        /\ UNCHANGED <<fwEnded, fwReleased>>

request(code) == request_via("request_firmware", code)
request_nowarn(code) == request_via("firmware_request_nowarn", code)
request_direct(code) == request_via("request_firmware_direct", code)

\* Drop for Firmware: the handle's lifetime ends, release_firmware(self.ptr).
firmware_drop(p) ==
    /\ p \in fwHandles
    /\ fwHandles' = fwHandles \ {p}
    /\ fwEnded' = fwEnded \cup {p}
    /\ fwReleased' = [fwReleased EXCEPT ![p] = @ + 1]
    /\ UNCHANGED <<fwNext, fwLast>>

FwCodes == {0} \cup HostErrs

Request == \E code \in FwCodes : request(code) /\ UNCHANGED notFw
RequestNowarn == \E code \in FwCodes : request_nowarn(code) /\ UNCHANGED notFw
RequestDirect == \E code \in FwCodes : request_direct(code) /\ UNCHANGED notFw
FirmwareDrop == \E p \in FwPtrs : firmware_drop(p) /\ UNCHANGED notFw

NextFw ==
    \/ Request
    \/ RequestNowarn
    \/ RequestDirect
    \/ FirmwareDrop

\* ------------------------------------------------------------------ RTC
NullOps == [read_time |-> FALSE, set_time |-> FALSE]

\* Registration::new(): no host device, a default (all null) callback table,
\* no parent.  The driver type fixes which operations it provides.
InitRtc ==
    /\ HAS_READ_TIME \in BOOLEAN
    /\ HAS_SET_TIME \in BOOLEAN
    /\ regAlive = TRUE
    /\ rtc = 0
    /\ ops = NullOps
    /\ parent = 0
    /\ rpc = "idle"
    /\ argParent = 0
    /\ argData = 0
    /\ regRet = <<>>
    /\ atEntry = <<0, NullOps, 0>>
    /\ everOk = FALSE
    /\ nextRtc = 1
    /\ devOps = [r \in RtcIds |-> FALSE]
    /\ drvdata = [r \in RtcIds |-> 0]
    /\ registered = [r \in RtcIds |-> FALSE]
    /\ devParent = [r \in RtcIds |-> 0]
    /\ hostCode = 0
    /\ cbKind = "none"
    /\ cbDev = 0
    /\ cbData = 0
    /\ cbRes = Ok(0)
    /\ cbRet = <<>>

\* A set-up that fills every entry, with a stub where the driver has nothing.
install_ops_stubbed(o) == [read_time |-> TRUE, set_time |-> TRUE]

\* The callback table after "set up the callbacks": an entry is written only
\* for an operation the driver provides, the others keep what they held.
install_ops(o) ==
    [read_time |-> IF HAS_READ_TIME THEN TRUE ELSE o.read_time,
     set_time |-> IF HAS_SET_TIME THEN TRUE ELSE o.set_time]

\* A register that does not look at `parent` first.
register_enter_no_check(par) ==
    /\ rpc = "idle"
    /\ regAlive
    /\ nextData <= MaxData
    /\ nextData' = nextData + 1
    /\ atEntry' = <<rtc, ops, parent>>
    /\ ops' = install_ops(ops)
    /\ rpc' = "alloc"
    /\ argParent' = par
    /\ argData' = nextData
    /\ regRet' = <<>>
    /\ UNCHANGED <<drops, reclaims, vtableVars, regAlive, rtc, parent, everOk, rtcHostVars, cbVars>>

\* register(parent, data), first step: the caller hands over fresh owned data;
\* an instance whose parent is set returns Err(EINVAL) at once (`data` goes out
\* of scope and is dropped); otherwise the callbacks are set up.
register_enter(par) ==
    /\ rpc = "idle"
    /\ regAlive
    /\ nextData <= MaxData
    /\ nextData' = nextData + 1
    /\ atEntry' = <<rtc, ops, parent>>
    /\ IF parent # 0
       THEN /\ regRet' = <<EINVAL>>
            /\ drops' = [drops EXCEPT ![nextData] = @ + 1]
            /\ UNCHANGED <<ops, rpc, argParent, argData>>
       ELSE /\ ops' = install_ops(ops)
            /\ rpc' = "alloc"
            /\ argParent' = par
            /\ argData' = nextData
            /\ regRet' = <<>>
            /\ UNCHANGED drops
    /\ UNCHANGED <<reclaims, vtableVars, regAlive, rtc, parent, everOk, rtcHostVars, cbVars>>

\* A register that forgets the data when the host's allocation fails.
register_alloc_leaking(p) ==
    /\ rpc = "alloc"
    /\ hostCode' = p
    /\ LET r == from_kernel_err_ptr(p) IN
       IF r.ok
       THEN /\ p = nextRtc
            /\ nextRtc <= MaxRtc
            /\ nextRtc' = nextRtc + 1
            /\ devParent' = [devParent EXCEPT ![p] = argParent]
            /\ devOps' = [devOps EXCEPT ![p] = TRUE]
            /\ rtc' = r.val
            /\ rpc' = "setdata"
            /\ UNCHANGED <<drops, argParent, argData, regRet>>
       ELSE /\ regRet' = <<to_kernel_errno(r.val)>>
            /\ rpc' = "idle"
            /\ argParent' = 0
            /\ argData' = 0
            /\ UNCHANGED <<drops, nextRtc, devParent, devOps, rtc>>
    /\ UNCHANGED <<nextData, reclaims, vtableVars, regAlive, ops, parent, atEntry, everOk,
                   drvdata, registered, cbVars>>

\* let rtc = from_kernel_err_ptr(devm_rtc_allocate_device(parent))?: the host
\* hands out a device or an ERR_PTR; on an error register returns it and `data`
\* is dropped.  Then (*rtc).ops = this.ops.get(); this.rtc = Some(rtc).
register_alloc(p) ==
    /\ rpc = "alloc"
    /\ hostCode' = p
    /\ LET r == from_kernel_err_ptr(p) IN
       IF r.ok
       THEN /\ p = nextRtc
            /\ nextRtc <= MaxRtc
            /\ nextRtc' = nextRtc + 1
            /\ devParent' = [devParent EXCEPT ![p] = argParent]
            /\ devOps' = [devOps EXCEPT ![p] = TRUE]
            /\ rtc' = r.val
            /\ rpc' = "setdata"
            /\ UNCHANGED <<drops, argParent, argData, regRet>>
       ELSE /\ regRet' = <<to_kernel_errno(r.val)>>
            /\ drops' = [drops EXCEPT ![argData] = @ + 1]
            /\ rpc' = "idle"
            /\ argParent' = 0
            /\ argData' = 0
            /\ UNCHANGED <<nextRtc, devParent, devOps, rtc>>
    /\ UNCHANGED <<nextData, reclaims, vtableVars, regAlive, ops, parent, atEntry, everOk,
                   drvdata, registered, cbVars>>

\* A register that asks the host to finalize before it has placed the data.
register_set_drvdata_deferred ==
    /\ rpc = "setdata"
    /\ argData' = into_pointer(argData)
    /\ rpc' = "finalize"
    /\ UNCHANGED <<heapVars, vtableVars, regVars, argParent, regRet, atEntry, everOk,
                   nextRtc, devOps, drvdata, registered, devParent, hostCode, cbVars>>

\* data_pointer = into_pointer(data); dev_set_drvdata(&mut (*rtc).dev, data_pointer)
register_set_drvdata ==
    /\ rpc = "setdata"
    /\ argData' = into_pointer(argData)
    /\ drvdata' = [drvdata EXCEPT ![rtc] = into_pointer(argData)]
    /\ rpc' = "finalize"
    /\ UNCHANGED <<heapVars, vtableVars, regVars, argParent, regRet, atEntry, everOk,
                   nextRtc, devOps, registered, devParent, hostCode, cbVars>>

\* A register that stores the parent before it looks at the host's answer.
register_finalize_parent_first(code) ==
    /\ rpc = "finalize"
    /\ hostCode' = code
    /\ rpc' = "idle"
    /\ argParent' = 0
    /\ argData' = 0
    /\ parent' = argParent
    /\ IF code < 0
       THEN /\ reclaims' = [reclaims EXCEPT ![from_pointer(argData)] = @ + 1]
            /\ drops' = [drops EXCEPT ![from_pointer(argData)] = @ + 1]
            /\ regRet' = <<to_kernel_errno(from_kernel_errno(code))>>
            /\ UNCHANGED <<registered, everOk>>
       ELSE /\ registered' = [registered EXCEPT ![rtc] = TRUE]
            /\ regRet' = <<0>>
            /\ everOk' = TRUE
            /\ UNCHANGED <<reclaims, drops>>
    /\ UNCHANGED <<nextData, vtableVars, regAlive, rtc, ops, atEntry,
                   nextRtc, devOps, drvdata, devParent, cbVars>>

\* ret = devm_rtc_register_device(rtc): on ret < 0 the data is rebuilt from
\* data_pointer and dropped, and the error is returned; otherwise the parent is
\* stored and Ok(()) returned.
register_finalize(code) ==
    /\ rpc = "finalize"
    /\ hostCode' = code
    /\ rpc' = "idle"
    /\ argParent' = 0
    /\ argData' = 0
    /\ IF code < 0
       THEN /\ reclaims' = [reclaims EXCEPT ![from_pointer(argData)] = @ + 1]
            /\ drops' = [drops EXCEPT ![from_pointer(argData)] = @ + 1]
            /\ regRet' = <<to_kernel_errno(from_kernel_errno(code))>>
            /\ UNCHANGED <<registered, parent, everOk>>
       ELSE /\ registered' = [registered EXCEPT ![rtc] = TRUE]
            /\ parent' = argParent
            /\ regRet' = <<0>>
            /\ everOk' = TRUE
            /\ UNCHANGED <<reclaims, drops>>
    /\ UNCHANGED <<nextData, vtableVars, regAlive, rtc, ops, atEntry,
                   nextRtc, devOps, drvdata, devParent, cbVars>>

\* The host issues a callback on an RTC device it has registered, or is
\* registering, through the entry of the table the device points at.
CanCall(r) ==
    /\ regAlive
    /\ devOps[r]
    /\ registered[r] \/ (rpc = "finalize" /\ rtc = r)

\* A callback that takes the data over (from_pointer) where it should borrow:
\* the data is dropped when the callback returns.
time_callback_owning(kind, r, result) ==
    /\ cbKind' = kind
    /\ cbDev' = r
    /\ cbData' = drvdata[r]
    /\ cbRes' = result
    /\ cbRet' = <<from_kernel_result(IF result.ok THEN Ok(0) ELSE result)>>
    /\ reclaims' = [reclaims EXCEPT ![drvdata[r]] = 1]
    /\ drops' = [drops EXCEPT ![drvdata[r]] = 1]
    /\ UNCHANGED <<nextData, vtableVars, regVars, callVars, rtcHostVars>>

\* read_time_callback / set_time_callback: data = T::Data::borrow(
\* dev_get_drvdata(dev)); T::read_time(data, ..)? ; Ok(0).
time_callback(kind, r, result) ==
    /\ cbKind' = kind
    /\ cbDev' = r
    /\ cbData' = drvdata[r]
    /\ cbRes' = result
    /\ cbRet' = <<from_kernel_result(IF result.ok THEN Ok(0) ELSE result)>>
    /\ UNCHANGED <<heapVars, vtableVars, regVars, callVars, rtcHostVars>>

read_time_callback(r, result) ==
    /\ CanCall(r)
    /\ ops.read_time
    /\ time_callback("read_time", r, result)

set_time_callback(r, result) ==
    /\ CanCall(r)
    /\ ops.set_time
    /\ time_callback("set_time", r, result)

\* The Registration goes out of scope.  It has no Drop implementation: its
\* fields' storage, the callback table included, is released and the host is
\* not told.
registration_drop ==
    /\ regAlive
    /\ rpc = "idle"
    /\ regAlive' = FALSE
    /\ UNCHANGED <<heapVars, vtableVars, rtc, ops, parent, callVars, rtcHostVars, cbVars>>

\* The host issues a callback on a registered device whose callback table is
\* gone: it reads released storage, so anything may come of it (no call, or a
\* call returning any code).
callback_dangling(r, out) ==
    /\ ~regAlive
    /\ devOps[r]
    /\ registered[r]
    /\ cbKind' = "dangling"
    /\ cbDev' = r
    /\ cbRet' = out
    /\ UNCHANGED <<heapVars, vtableVars, regVars, callVars, rtcHostVars, cbData, cbRes>>

RegisterEnter == \E par \in Parents : register_enter(par) /\ UNCHANGED notRtc
RegisterAlloc == \E p \in HostErrs \cup RtcIds : register_alloc(p) /\ UNCHANGED notRtc
RegisterSetDrvdata == register_set_drvdata /\ UNCHANGED notRtc
RegisterFinalize == \E code \in HostErrs \cup {0} : register_finalize(code) /\ UNCHANGED notRtc
ReadTimeCallback ==
    \E r \in RtcIds, result \in DriverResults :
        read_time_callback(r, result) /\ UNCHANGED notRtc
SetTimeCallback ==
    \E r \in RtcIds, result \in DriverResults :
        set_time_callback(r, result) /\ UNCHANGED notRtc
RegistrationDrop == registration_drop /\ UNCHANGED notRtc
CallbackDangling ==
    \E r \in RtcIds, out \in {<<>>} \cup {<<c>> : c \in {0} \cup DriverErrs} :
        callback_dangling(r, out) /\ UNCHANGED notRtc

NextRtc ==
    \/ RegisterEnter
    \/ RegisterAlloc
    \/ RegisterSetDrvdata
    \/ RegisterFinalize
    \/ ReadTimeCallback
    \/ SetTimeCallback
    \/ RegistrationDrop
    \/ CallbackDangling

InitTables ==
    /\ OF_DEVICE_ID_TABLE = <<>>
    /\ ID_TABLE = <<>>

Init ==
    /\ InitHeap /\ InitI2c /\ InitRtc /\ InitTables
    /\ InitMatchIdle /\ InitRawIdle /\ InitDrvIdle /\ InitFw

\* The I2C trampolines do not read the RTC side: their runs start with one
\* RTC driver type, the one that provides both operations, and with an I2C
\* driver that defines both of its tables or neither (get_id_info reads only
\* the one table, get_device_id_info only the other).
InitProbeTables ==
    \/ OF_DEVICE_ID_TABLE = <<>> /\ ID_TABLE = <<>>
    \/ OF_DEVICE_ID_TABLE = <<OfTable>> /\ ID_TABLE = <<I2cTable>>

InitI2cRun ==
    /\ InitHeap /\ InitI2c /\ InitRtc /\ HAS_READ_TIME /\ HAS_SET_TIME
    /\ InitProbeTables /\ InitMatchIdle /\ InitRawIdle /\ InitDrvIdle /\ InitFw

SpecI2c == InitI2cRun /\ [][NextI2c]_vars

SpecRtc == Init /\ [][NextRtc]_vars

\* Runs of Id Table matching alone: everything else stays as constructed.
InitMatchRun ==
    /\ InitHeap /\ InitI2c /\ InitRtc /\ HAS_READ_TIME /\ HAS_SET_TIME
    /\ InitTables /\ InitMatch /\ InitRawIdle /\ InitDrvIdle /\ InitFw

SpecIdTable == InitMatchRun /\ [][NextMatch]_vars

\* Runs of to_rawid alone.
InitRawRun ==
    /\ InitHeap /\ InitI2c /\ InitRtc /\ HAS_READ_TIME /\ HAS_SET_TIME
    /\ InitTables /\ InitMatchIdle /\ InitRaw /\ InitDrvIdle /\ InitFw

SpecRawId == InitRawRun /\ [][NextRaw]_vars

\* Runs of DriverAdapter::register / unregister alone.
InitDrvRun ==
    /\ InitHeap /\ InitI2c /\ InitRtc /\ HAS_READ_TIME /\ HAS_SET_TIME
    /\ InitMatchIdle /\ InitRawIdle /\ InitDrv /\ InitFw

SpecDrv == InitDrvRun /\ [][NextDrv]_vars

\* Runs of Firmware requests and drops alone.
InitFwRun == Init /\ HAS_READ_TIME /\ HAS_SET_TIME

SpecFw == InitFwRun /\ [][NextFw]_vars

\* ------------------------------------------------------------ I2C claims
RemovePcs == {"remove_reclaimed", "remove_called", "remove_hooked"}

\* C1: under the host's contract (remove only on a device a probe bound), the
\* data T::probe returned is reclaimed by exactly one remove_callback, the one
\* of the device that probed it, and is finalized exactly once: never twice,
\* and always by the time that remove_callback has returned, whether T::remove
\* returned Ok or an error.  Until then it is held by the probe trampoline or
\* sits in the slot of the bound device.
C1_ReclaimedAndFinalizedOnce ==
    \A p \in DataIds : origin[p] # 0 =>
        LET d == origin[p] IN
        /\ reclaims[p] <= 1
        /\ drops[p] <= reclaims[p]
        /\ reclaims[p] = 1 => reclaimedBy[p] = d
        /\ (reclaims[p] = 1 /\ held[d] # p) => drops[p] = 1
        /\ (reclaims[p] = 1 /\ held[d] = p) => (drops[p] = 0 /\ pc[d] \in RemovePcs)
        /\ reclaims[p] = 0 =>
              \/ held[d] = p /\ pc[d] = "probe_called"
              \/ clientdata[d] = p /\ bound[d] /\ pc[d] = "idle"

\* C1 witness: a remove_callback whose T::remove failed has returned the error
\* and the data of the slot is finalized once.
C1_Witness ==
    \E d \in Devices :
        /\ pc[d] = "idle" /\ ~bound[d] /\ ret[d] = <<-5>>
        /\ clientdata[d] # 0 /\ origin[clientdata[d]] = d
        /\ drops[clientdata[d]] = 1 /\ reclaims[clientdata[d]] = 1

\* C2: a probe_new_callback whose T::probe failed returns that error to the
\* host, invoked T::probe once, leaves the device unbound, and no step of it
\* writes the private-data slot: the slot is written only by the return step
\* of a probe whose T::probe succeeded.
C2_ProbeFailure ==
    [][\A d \in Devices :
          /\ (pc[d] = "probe_called" /\ ~res[d].ok /\ pc'[d] = "idle") =>
                /\ ret'[d] = <<res[d].val>>
                /\ probeCalls'[d] = 1
                /\ clientdata'[d] = clientdata[d]
                /\ ~bound'[d]
          /\ clientdata'[d] # clientdata[d] => (pc[d] = "probe_called" /\ res[d].ok)
          /\ (pc[d] = "probe_entered" /\ pc'[d] = "probe_called") => probeCalls[d] = 0
      ]_vars

\* C2 witness: a failed probe has returned on a device whose slot still holds
\* what an earlier probe stored.
C2_Witness ==
    \E d \in Devices :
        /\ pc[d] = "idle" /\ ~res[d].ok /\ ret[d] = <<-22>> /\ probeCalls[d] = 1
        /\ ~bound[d] /\ clientdata[d] # 0

\* C3: after remove_callback returns the slot is cleared: no slot ever refers
\* to data that has been finalized.
C3_SlotNeverStale ==
    \A d \in Devices : clientdata[d] # 0 => drops[clientdata[d]] = 0

\* ------------------------------------------------------------ RTC claims
\* C4: a register call (it takes a fresh owned-data value) on an instance whose
\* parent is set returns EINVAL at once and changes neither the Registration's
\* fields (rtc, ops, parent) nor anything on the host side (the device's
\* callback-table pointer, private-data slot, registered state).
C4_SecondRegisterRejected ==
    [][(rpc = "idle" /\ parent # 0 /\ nextData' # nextData) =>
          /\ regRet' = <<EINVAL>>
          /\ rpc' = "idle"
          /\ UNCHANGED <<regVars, rtcHostVars>>
      ]_vars

\* C4 witness: a Registered instance whose last register call returned EINVAL.
C4_Witness ==
    /\ rpc = "idle" /\ parent # 0 /\ regRet = <<EINVAL>>
    /\ rtc # 0 /\ registered[rtc] /\ drvdata[rtc] # 0

\* C5: when the host rejects finalization, register has finalized the data
\* exactly once when it returns, returns the host's code, and the host
\* device's private-data slot holds no data afterwards.
C5_FinalizeFailureClearsSlot ==
    [][(rpc = "finalize" /\ rpc' = "idle" /\ hostCode' < 0) =>
          /\ drops'[argData] = 1
          /\ regRet' = <<hostCode'>>
          /\ drvdata'[rtc] = 0
      ]_vars

\* C6: when a register call has failed, the Registration's fields are what
\* they were when the call was entered.
C6_FailureLeavesFieldsAsBefore ==
    (rpc = "idle" /\ regRet # <<>> /\ regRet # <<0>>) => <<rtc, ops, parent>> = atEntry

\* C7: the instance is Registered (parent set) exactly when some register call
\* has returned Ok; once set the parent never changes; and a register call on
\* an instance with no parent, such as one whose earlier calls all failed, is
\* not rejected as already configured but goes on to the host.
C7_Lifecycle ==
    /\ []((parent # 0) <=> everOk)
    /\ [][parent # 0 => parent' = parent]_vars
    /\ [][(rpc = "idle" /\ parent = 0 /\ nextData' # nextData) =>
            (rpc' = "alloc" /\ regRet' = <<>>)]_vars
    /\ [][(rpc # "idle" /\ rpc' = "idle" /\ regRet' # <<0>>) => parent' = 0]_vars

\* C7 witness: a register call is on its way to the host after an earlier call
\* failed at finalization.
C7_Witness ==
    /\ rpc = "alloc" /\ parent = 0 /\ ~everOk
    /\ rtc # 0 /\ ~registered[rtc] /\ drops[drvdata[rtc]] = 1

\* C8: no host RTC device is registered, pointing at the Registration's
\* callback table, while the Registration is gone.
C8_TableOutlivesRegistration ==
    \A r \in RtcIds : (registered[r] /\ devOps[r]) => regAlive

\* C9: the callback table never holds an entry for an operation the driver
\* does not provide, and from the moment register has set up the callbacks (a
\* call is past its first step, or a host device points at the table) it holds
\* exactly the entries of the operations the driver provides.
C9_OpsMatchVtable ==
    /\ ops.read_time => HAS_READ_TIME
    /\ ops.set_time => HAS_SET_TIME
    /\ (rpc # "idle" \/ nextRtc > 1) =>
          ops = [read_time |-> HAS_READ_TIME, set_time |-> HAS_SET_TIME]

\* C9 witness: a registered device of a driver that provides read_time only.
C9_Witness ==
    /\ HAS_READ_TIME /\ ~HAS_SET_TIME
    /\ rtc # 0 /\ registered[rtc] /\ devOps[rtc]
    /\ ops.read_time /\ ~ops.set_time

\* C10: the callbacks only borrow: a step that runs a callback leaves the
\* heap (no data reclaimed or finalized), every private-data slot, the
\* Registration and the host's devices as they were; the slot of a registered
\* device refers to data never reclaimed nor finalized, however many callbacks
\* ran; a callback borrowed exactly what the slot holds, and returned 0 when
\* the driver returned Ok and the driver's error code otherwise.
C10_SlotLive ==
    /\ \A r \in RtcIds : registered[r] =>
          /\ drvdata[r] # 0
          /\ drops[drvdata[r]] = 0
          /\ reclaims[drvdata[r]] = 0
    /\ cbKind \in {"read_time", "set_time"} =>
          /\ cbData = drvdata[cbDev]
          /\ cbData # 0
          /\ cbRet = <<IF cbRes.ok THEN 0 ELSE cbRes.val>>

C10_CallbacksBorrow ==
    /\ []C10_SlotLive
    /\ [][cbVars' # cbVars => UNCHANGED <<heapVars, regVars, callVars, rtcHostVars>>]_vars

\* C10 witness: set_time has failed on a registered device.
C10_Witness ==
    /\ cbKind = "set_time" /\ registered[cbDev] /\ ~cbRes.ok /\ cbRet = <<-5>>
    /\ drvdata[cbDev] # 0 /\ drops[drvdata[cbDev]] = 0

\* ------------------------------------------------------- Id Table claims
\* C11: on a table built from N entries, matching on the record at index i
\* returns exactly the context supplied for entry i, 'no context' if entry i
\* had none (its offset is zero) or if the host's lookup returned null,
\* whatever the memory around the table holds; it reads no address but the
\* context cell of entry i, and none at all when it returns 'no context'.
C11_MatchReturnsEntryContext ==
    mRes # <<>> =>
        /\ mRes[1] = IF mIdx = 0 THEN 0 ELSE mEntries[mIdx].info
        /\ mPtr = IF mRes[1] = 0 THEN 0 ELSE InfoAddr(mTable, mIdx)
        /\ mTable.n = Len(mEntries)
        /\ \A i \in 1..mTable.n :
              /\ mTable.ids[i].id = mEntries[i].id
              /\ (mTable.ids[i].data = 0) <=> (mEntries[i].info = 0)

\* C11 witness: the last record of a three-entry table whose entries carry
\* different contexts has been matched.
C11_Witness ==
    /\ Len(mEntries) = 3 /\ mIdx = 3 /\ mRes = <<20>>
    /\ mPtr = InfoAddr(mTable, 3) /\ mMem = 77 /\ mZero = 10
    /\ mEntries[1].info = 10 /\ mEntries[2].info = 0

\* ------------------------------------------------------- to_rawid claims
\* C12, as stated, with the encoded length of an identity being the number
\* of bytes of its name: construction fails exactly when that length exceeds
\* the 20 bytes of the name buffer, so a name of 20 bytes succeeds.
C12_FailsIffLongerThanBuffer ==
    rOut # <<>> => (rOut[1].ok <=> Len(rName) <= NameCap)

\* C12, amended: the zero terminator takes one of the 20 bytes.  Construction
\* fails exactly when the name's length plus one exceeds 20: a name of 19
\* bytes succeeds, a name of 20 bytes fails; a failure produces no record and
\* a success holds every byte of the name, so no record is ever truncated.
C12_FailsIffNameAndTerminatorExceedBuffer ==
    rOut # <<>> =>
        /\ rOut[1].ok <=> Len(rName) + 1 <= NameCap
        /\ ~rOut[1].ok => rOut[1] = OutOfBounds
        /\ rOut[1].ok =>
              \A i \in 1..Len(rName) : rOut[1].id.name[i] = as_c_char(rName[i])

\* C12 witness: a name of 20 bytes has been refused.
C12_Witness ==
    rOut # <<>> /\ Len(rName) = NameCap /\ ~rOut[1].ok

\* c_char back to u8.
from_c_char(c) == IF c < 0 THEN c + 256 ELSE c

\* The bytes of a name buffer up to its first zero.
RECURSIVE c_str(_, _)
c_str(buf, i) ==
    IF i > Len(buf) \/ buf[i] = 0 THEN <<>>
    ELSE <<from_c_char(buf[i])>> \o c_str(buf, i + 1)

NoZeroByte(name) == \A i \in 1..Len(name) : name[i] # 0

\* C13: for a name that fits, the buffer holds the name's bytes in order from
\* index 0, then a zero, then zeros to its end, and the reserved field is the
\* offset; for names without zero bytes the buffer read up to its first zero
\* is the name again, and no other such name gives the same record.
C13_Lossless ==
    (rOut # <<>> /\ rOut[1].ok) =>
        LET id == rOut[1].id IN
        /\ Len(id.name) = NameCap
        /\ \A i \in 1..Len(rName) : from_c_char(id.name[i]) = rName[i]
        /\ \A i \in (Len(rName) + 1)..NameCap : id.name[i] = 0
        /\ id.driver_data = rOffset
        /\ NoZeroByte(rName) =>
              /\ c_str(id.name, 1) = rName
              /\ \A other \in Names :
                    (NoZeroByte(other) /\ other # rName) =>
                        to_rawid(other, rOffset) # rOut[1]

\* C13 witness: a name with a byte above 127 has been converted.
C13_Witness ==
    /\ rOut # <<>> /\ rOut[1].ok
    /\ rName = <<200, 97>> /\ rOffset = 2
    /\ rOut[1].id.name[1] = -56

\* C21: to_rawid gives the terminator record ZERO for the empty name with
\* offset 0; it gives a record other than ZERO for every name whose first
\* byte is not zero and for every offset other than 0; a record equal to ZERO
\* comes only from offset 0 and a name without a non-zero byte, which read as
\* a C string is the empty name.
C21_ZeroOnlyForEmptyWithoutContext ==
    (rOut # <<>> /\ rOut[1].ok) =>
        LET id == rOut[1].id IN
        /\ (rName = <<>> /\ rOffset = 0) => id = ZERO
        /\ (rName # <<>> /\ rName[1] # 0) => id # ZERO
        /\ rOffset # 0 => id # ZERO
        /\ id = ZERO => (rOffset = 0 /\ c_str(rName, 1) = <<>>)

\* C21 witness: the empty name with offset 0 has been converted and the
\* record is the terminator record.
C21_Witness ==
    /\ rOut # <<>> /\ rOut[1].ok
    /\ rName = <<>> /\ rOffset = 0
    /\ rOut[1].id = ZERO

\* ----------------------------------------------- I2C register claim
\* C14: the record i2c_register_driver sees has the name and both
\* trampolines set; each table pointer is the driver's table when the driver
\* defines it and otherwise what the caller's record held; and register
\* returns Ok exactly when the host's code is not negative, otherwise the
\* host's code as its error.
C14_RegisterPopulatesThenCalls ==
    /\ (hostSaw # <<>> /\ drvPc = "idle") =>
        LET saw == hostSaw[1] IN
        /\ saw.name = drvName /\ drvName \in DriverNames
        /\ saw.probe_new = "probe_new_callback"
        /\ saw.remove = "remove_callback"
        /\ saw.of_match_table =
              IF OF_DEVICE_ID_TABLE # <<>> THEN OF_DEVICE_ID_TABLE[1].base
              ELSE pdrv0.of_match_table
        /\ saw.id_table =
              IF ID_TABLE # <<>> THEN ID_TABLE[1].base ELSE pdrv0.id_table
    /\ (drvRet # <<>> /\ drvPc = "idle") =>
        /\ drvRet[1].ok <=> drvCode >= 0
        /\ ~drvRet[1].ok => drvRet[1].val = drvCode
        /\ hostHas => drvRet[1].ok

\* C14 witness: the host refused a record of a driver that defines the I2C
\* table only, whose other table pointer held an address.
C14_Witness ==
    /\ drvPc = "idle" /\ drvRet = <<Err(-12)>> /\ hostSaw # <<>>
    /\ OF_DEVICE_ID_TABLE = <<>> /\ ID_TABLE # <<>>
    /\ pdrv0.of_match_table = 7 /\ hostSaw[1].of_match_table = 7
    /\ hostSaw[1].id_table = 8192

\* ------------------------------------------------------ Firmware claim
\* C15, state part: release_firmware has been called once on the object of
\* every handle whose lifetime ended and on nothing else (never on null), and
\* every object the host handed out belongs to a handle that is alive or
\* has ended.
C15_ReleasedOnceWhenEnded ==
    /\ \A p \in FwPtrs : fwReleased[p] = IF p \in fwEnded THEN 1 ELSE 0
    /\ 0 \notin fwHandles \cup fwEnded
    /\ fwHandles \cap fwEnded = {}
    /\ fwHandles \cup fwEnded = 1..(fwNext - 1)

\* C15, step part: a request the host fails returns the host's error and
\* changes neither the handles nor the release counts; a request the host
\* serves returns one new handle and releases nothing.
C15_RequestStep ==
    (fwLast' # fwLast \/ fwNext' # fwNext) =>
        LET l == fwLast'[1] IN
        /\ fwReleased' = fwReleased
        /\ l.code < 0 =>
            /\ l.ret = Err(l.code)
            /\ fwHandles' = fwHandles
        /\ l.code >= 0 =>
            /\ l.ret.ok
            /\ l.ret.val \notin fwHandles \cup fwEnded
            /\ fwHandles' = fwHandles \cup {l.ret.val}

\* C15: over every sequence of requests and drops, failed requests yield the
\* host's error, no handle and no release; successful ones yield one handle
\* whose object is released exactly once, when the handle's lifetime ends.
C15_FirmwareReleasedExactlyOnce ==
    []C15_ReleasedOnceWhenEnded /\ [][C15_RequestStep]_vars

\* C15 witness: after a failed request_direct, one handle has ended and
\* been released while another is still alive.
C15_Witness ==
    /\ fwLast # <<>>
    /\ fwLast[1].entry = "request_firmware_direct" /\ fwLast[1].ret = Err(-12)
    /\ fwEnded = {1} /\ fwReleased[1] = 1
    /\ fwHandles = {2} /\ fwReleased[2] = 0

\* ---------------------------------------- I2C interleaving and ordering
\* C16, step part: in every interleaving of the devices' trampolines a slot
\* is written only by the return step of its own device's probe, data is
\* reclaimed only by the remove of the device whose probe stored it, and is
\* finalized only by that device's remove, and only when not yet finalized.
C16_Step ==
    /\ \A d \in Devices :
          clientdata'[d] # clientdata[d] =>
              /\ pc[d] = "probe_called" /\ pc'[d] = "idle"
              /\ clientdata'[d] = held[d] /\ origin[held[d]] = d
              /\ \A o \in Devices \ {d} : clientdata'[o] = clientdata[o]
    /\ \A p \in DataIds :
          /\ reclaims'[p] # reclaims[p] =>
                /\ origin[p] # 0
                /\ pc[origin[p]] = "idle" /\ pc'[origin[p]] = "remove_reclaimed"
                /\ held'[origin[p]] = p /\ reclaimedBy'[p] = origin[p]
          /\ drops'[p] # drops[p] =>
                /\ drops[p] = 0 /\ drops'[p] = 1
                /\ origin[p] # 0 /\ reclaimedBy[p] = origin[p]
                /\ pc[origin[p]] = "remove_hooked" /\ pc'[origin[p]] = "idle"

\* C16, state part: data a trampoline holds or a bound device's slot refers
\* to is that device's own, and no data is finalized twice.
C16_OwnData ==
    /\ \A d \in Devices :
          /\ held[d] # 0 => origin[held[d]] = d
          /\ clientdata[d] # 0 => origin[clientdata[d]] = d
    /\ \A p \in DataIds :
          /\ drops[p] <= 1
          /\ reclaims[p] > 0 => reclaimedBy[p] = origin[p]

\* C16: with probe and remove serialized per device and interleaved freely
\* across devices, each slot is written only by its device's probe, each
\* remove reclaims only its own device's data, and no data is finalized twice
\* or by another device's remove.
C16_DevicesDoNotInterfere == []C16_OwnData /\ [][C16_Step]_vars

\* C16 witness: one device is inside remove_callback holding its second data
\* (its first is finalized) while another is inside probe_new_callback
\* holding fresh data.
C16_Witness ==
    \E d, o \in Devices :
        /\ d # o
        /\ pc[d] \in RemovePcs /\ held[d] # 0 /\ drops[held[d]] = 0
        /\ \E p \in DataIds : origin[p] = d /\ p # held[d] /\ drops[p] = 1
        /\ pc[o] = "probe_called" /\ held[o] # 0

\* The calls of remove_callback, in order.
RemoveTrace == <<"from_pointer", "T::remove", "device_remove", "drop", "return">>

\* C17: remove_callback reclaims the data, then invokes T::remove, then runs
\* device_remove, then drops the data, then returns; the data is alive in
\* every step before the last; the value returned is 0 when T::remove
\* returned Ok and T::remove's error code otherwise.
C17_RemoveOrder ==
    \A d \in Devices :
        /\ pc[d] = "remove_reclaimed" =>
              /\ trace[d] = SubSeq(RemoveTrace, 1, 1)
              /\ held[d] = clientdata[d] /\ drops[held[d]] = 0
        /\ pc[d] = "remove_called" =>
              /\ trace[d] = SubSeq(RemoveTrace, 1, 2)
              /\ drops[held[d]] = 0
        /\ pc[d] = "remove_hooked" =>
              /\ trace[d] = SubSeq(RemoveTrace, 1, 3)
              /\ drops[held[d]] = 0
        /\ (pc[d] = "idle" /\ trace[d] # <<>> /\ trace[d][1] = "from_pointer") =>
              /\ trace[d] = RemoveTrace
              /\ drops[clientdata[d]] = 1
              /\ res[d].ok <=> ret[d] = <<0>>
              /\ ~res[d].ok => ret[d] = <<res[d].val>>

\* C17 witness: a remove_callback whose T::remove failed with EINVAL has run
\* all its steps and returned the error.
C17_Witness ==
    \E d \in Devices :
        /\ pc[d] = "idle" /\ trace[d] = RemoveTrace
        /\ res[d] = Err(-22) /\ ret[d] = <<-22>>
        /\ drops[clientdata[d]] = 1

\* What matching device d against a table must yield, read off the table's
\* entries: the context of the first entry with the device's identity, or 0.
ExpectedInfo(tab, d) ==
    IF tab = <<>> THEN 0
    ELSE LET t == tab[1]
             hits == {i \in 1..t.n : t.ids[i].id = d}
         IN  IF hits = {} THEN 0
             ELSE t.infos[CHOOSE i \in hits : \A j \in hits : i <= j]

\* C18: probe_new_callback matches the device against each table the driver
\* defines (no table, no record or a record without context give none) before
\* it invokes T::probe, invokes T::probe once with the two results, and when
\* T::probe succeeded returns 0 with the slot holding the data T::probe
\* returned.
C18_ProbeMatchesThenStores ==
    \A d \in Devices :
        /\ pc[d] = "probe_entered" =>
              /\ probeCalls[d] = 0 /\ probeArgs[d] = <<>>
              /\ trace[d] = <<"get_id_info", "get_device_id_info">>
              /\ info[d] = ExpectedInfo(OF_DEVICE_ID_TABLE, d)
              /\ device_info[d] = ExpectedInfo(ID_TABLE, d)
        /\ pc[d] = "probe_called" =>
              /\ probeCalls[d] = 1
              /\ trace[d] = <<"get_id_info", "get_device_id_info", "T::probe">>
              /\ probeArgs[d] = <<ExpectedInfo(OF_DEVICE_ID_TABLE, d),
                                  ExpectedInfo(ID_TABLE, d)>>
              /\ res[d].ok => (held[d] = res[d].val /\ held[d] # 0)
        /\ (pc[d] = "idle" /\ bound[d]) =>
              /\ probeCalls[d] = 1
              /\ res[d].ok /\ ret[d] = <<0>>
              /\ clientdata[d] = res[d].val /\ held[d] = 0
              /\ trace[d] = <<"get_id_info", "get_device_id_info", "T::probe",
                              "i2c_set_clientdata", "return">>

\* C18 witness: with both tables defined, device 1 (no Open Firmware record,
\* an I2C record with context) and device 2 (an Open Firmware record with
\* context, an I2C record without) have both been probed successfully.
C18_Witness ==
    /\ OF_DEVICE_ID_TABLE # <<>> /\ ID_TABLE # <<>>
    /\ pc[1] = "idle" /\ bound[1] /\ probeArgs[1] = <<0, 10>> /\ clientdata[1] # 0
    /\ pc[2] = "idle" /\ bound[2] /\ probeArgs[2] = <<20, 0>> /\ clientdata[2] # 0

\* The data values device d's probes returned, and the latest of them.
DataOf(d) == {p \in DataIds : origin[p] = d}
Latest(d) == CHOOSE q \in DataOf(d) : \A p \in DataOf(d) : p <= q

\* C20: on one device, once a later probe has returned data, every earlier
\* data of the device has been reclaimed once and finalized once and is never
\* held again; the slot holds the latest data from the moment its probe
\* stores it, whatever it held before; a remove works on the latest data and
\* finalizes it at most once.
C20_ReprobeReplacesAndFinalizesEach ==
    \A d \in Devices : DataOf(d) # {} =>
        LET q == Latest(d) IN
        /\ \A p \in DataOf(d) \ {q} :
              reclaims[p] = 1 /\ drops[p] = 1 /\ held[d] # p
        /\ reclaims[q] <= 1 /\ drops[q] <= reclaims[q]
        /\ (pc[d] = "probe_called" /\ held[d] = q) => clientdata[d] # q
        /\ ~(pc[d] = "probe_called" /\ held[d] = q) => clientdata[d] = q
        /\ pc[d] \in RemovePcs => held[d] = q

\* C20 witness: probe, remove, probe, remove have run on one device, the
\* second remove has returned, and each of the two data values is finalized
\* once; the slot still refers to the second.
C20_Witness ==
    \E d \in Devices : \E p, q \in DataIds :
        /\ p < q /\ origin[p] = d /\ origin[q] = d
        /\ pc[d] = "idle" /\ ~bound[d] /\ trace[d] = RemoveTrace
        /\ clientdata[d] = q
        /\ drops[p] = 1 /\ drops[q] = 1 /\ reclaims[p] = 1 /\ reclaims[q] = 1

\* --------------------------------------------------- RTC ordering claim
\* C19, state part: once register is past the callback set-up the table
\* holds the driver's entries; the table is attached to the fresh host device
\* before the data is placed; when finalization is requested the device has
\* the table attached, is not yet registered, and its slot holds the call's
\* data, neither reclaimed nor finalized; a registered device's slot holds
\* live data.
C19_Placed ==
    /\ rpc # "idle" => ops = [read_time |-> HAS_READ_TIME, set_time |-> HAS_SET_TIME]
    /\ rpc = "setdata" =>
          /\ devOps[rtc] /\ ~registered[rtc]
          /\ drvdata[rtc] = 0
          /\ drops[argData] = 0
    /\ rpc = "finalize" =>
          /\ devOps[rtc] /\ ~registered[rtc]
          /\ argData # 0 /\ drvdata[rtc] = argData
          /\ drops[argData] = 0 /\ reclaims[argData] = 0
    /\ \A r \in RtcIds : registered[r] =>
          /\ devOps[r]
          /\ drvdata[r] # 0 /\ drops[drvdata[r]] = 0 /\ reclaims[drvdata[r]] = 0

\* C19, step part: the host is asked to finalize only from the position where
\* the data is placed, and a callback step finds live data in the slot of the
\* device it is issued on.
C19_Step ==
    /\ (\E r \in RtcIds : registered'[r] /\ ~registered[r]) =>
          /\ rpc = "finalize" /\ registered'[rtc]
          /\ drvdata[rtc] # 0 /\ drops[drvdata[rtc]] = 0
    /\ (cbVars' # cbVars /\ cbKind' \in {"read_time", "set_time"}) =>
          /\ cbData' = drvdata[cbDev'] /\ cbData' # 0
          /\ drops[cbData'] = 0 /\ reclaims[cbData'] = 0

\* C19: register installs the callback entries and attaches the table, then
\* places the owned data in the device's slot, and only then asks the host to
\* finalize; at that moment, and for every callback from then on, the slot
\* holds the live owned data.
C19_DataPlacedBeforeFinalize == []C19_Placed /\ [][C19_Step]_vars

\* C19 witness: the host has issued read_time on the device while its
\* finalization is still in progress, and the callback borrowed the call's data.
C19_Witness ==
    /\ rpc = "finalize" /\ ~registered[rtc]
    /\ cbKind = "read_time" /\ cbDev = rtc
    /\ cbData = argData /\ drops[argData] = 0

\* ------------------------------------------------- RTC early-exit claim
\* C22, step part: a register call rejected because the parent is set, and
\* one whose host allocation failed, return the error, finalize the data
\* they were given exactly once in the step that returns, and write no
\* private-data slot; the data is in no slot before or after.
C22_Step ==
    /\ (rpc = "idle" /\ nextData' # nextData /\ rpc' = "idle") =>
          /\ parent # 0 /\ regRet' = <<EINVAL>>
          /\ drops[nextData] = 0 /\ drops'[nextData] = 1
          /\ reclaims'[nextData] = 0
          /\ drvdata' = drvdata
          /\ \A r \in RtcIds : drvdata[r] # nextData
    /\ (rpc = "alloc" /\ rpc' = "idle") =>
          /\ regRet' = <<hostCode'>> /\ hostCode' < 0
          /\ drops[argData] = 0 /\ drops'[argData] = 1
          /\ reclaims'[argData] = 0
          /\ drvdata' = drvdata
          /\ \A r \in RtcIds : drvdata[r] # argData

\* C22, state part: no data passed to register is finalized more than once;
\* data finalized without having been taken back from a slot (an early exit)
\* is in no slot; data of a call that has not reached dev_set_drvdata is in no
\* slot and not finalized.
C22_AtMostOnce ==
    /\ \A p \in DataIds :
          /\ drops[p] <= 1
          /\ (drops[p] = 1 /\ reclaims[p] = 0) => \A r \in RtcIds : drvdata[r] # p
    /\ rpc \in {"alloc", "setdata"} =>
          /\ drops[argData] = 0
          /\ \A r \in RtcIds : drvdata[r] # argData

\* C22: on the two early exits of register the data is never placed in a
\* slot and is finalized exactly once when the call returns; over every
\* sequence of register calls no data is finalized more than once.
C22_EarlyExitFinalizesOnce == []C22_AtMostOnce /\ [][C22_Step]_vars

\* C22 witness: a first call's allocation failed (data 1 finalized, never in
\* a slot), a second call registered data 2, and a third call was rejected
\* with EINVAL and its data 3 finalized.
C22_Witness ==
    /\ rpc = "idle" /\ regRet = <<EINVAL>> /\ parent # 0
    /\ drops[1] = 1 /\ reclaims[1] = 0
    /\ rtc # 0 /\ registered[rtc] /\ drvdata[rtc] = 2 /\ drops[2] = 0
    /\ drops[3] = 1 /\ reclaims[3] = 0

====
